---------------------------- MODULE Spec2Model ----------------------------
(***************************************************************************)
(* Model of the coursework notebooks of eth-edc23: the fixed-step Euler    *)
(* integrator solve_ode_euler (session_02/Python_Intro/2_odes.ipynb) and   *)
(* the interactive plotting functions that ipywidgets' interact() drives.  *)
(*                                                                         *)
(* Numbers.  Python floats are modelled as exact rationals <<n, d>> in     *)
(* lowest terms with d > 0.  The step sizes and horizons drawn are         *)
(* multiples of 1/2, on which the binary64 operations of the Euler update  *)
(* are exact; the rounding of np.linspace's quotient is not modelled.      *)
(***************************************************************************)
EXTENDS Integers, Sequences, FiniteSets, TLC

VARIABLES
    call,      \* arguments of the latest integrator call (NoCall before any)
    ret,       \* outcome of that call: a trajectory or the exception raised
    nb,        \* the interactive function of the session
    libs,      \* whether the kernel binds np, odeint and plt
    shown,     \* whether the interact(...) cell has been executed
    widget,    \* current slider values, by keyword
    lastArgs,  \* keyword arguments of the latest invocation of the function
    plot,      \* trajectory handed to the latest plotting call
    runs,      \* integrator calls made by the interactive function
    renders,   \* plotting calls of a computed trajectory
    events,    \* slider change events handled
    invokes,   \* direct invocations of the interactive function
    queue,     \* slider messages sent by the front end, not yet handled
    inflight,  \* executions of the interactive function in progress
    done,      \* ids of the slider messages handled, in order of completion
    arrived,   \* slider messages sent so far
    evals,     \* outcomes of the dydt calls of the latest solve_ode_euler
               \* call, in order: "ok" or the exception raised
    globals,   \* the module-level data of the notebook, by name
    earlier,   \* what the run before the latest returned, as it is now
    conv,      \* the loop of solve_ode_euler(exp_decay_dt, 10, 0.001, 1) in
               \* progress: the index i and bounds of y_values[i]
    deriv,     \* the latest direct call of a derivative function of the
               \* Solow or Kaldor notebook: its arguments and its value
    overlay,   \* the fixed points the latest plot_phase_portrait call drew
    stability  \* the stability cell: its parameter values, its position in
               \* the loops and eigenvalues_fixed_points

vars == <<call, ret, nb, libs, shown, widget, lastArgs, plot, runs, renders,
          events, invokes, queue, inflight, done, arrived, evals, globals,
          earlier, conv, deriv, overlay, stability>>

symbolicVars == <<overlay, stability>>

kernelVars == <<queue, inflight, done, arrived>>

harnessVars == <<nb, libs, shown, widget, lastArgs, plot, runs, renders,
                 events, invokes, globals, earlier>>

---------------------------------------------------------------------------
(* Rational arithmetic standing for Python's float operations.             *)

Abs(x) == IF x < 0 THEN -x ELSE x

RECURSIVE GCD(_, _)
GCD(a, b) == IF b = 0 THEN a ELSE GCD(b, a % b)

\* the rational n/d (d # 0) in lowest terms with a positive denominator
Rat(n, d) ==
    LET g == GCD(Abs(n), Abs(d))
        s == IF d < 0 THEN -1 ELSE 1
    IN  <<(s * n) \div g, (s * d) \div g>>

FromInt(k) == <<k, 1>>

\* sums and products reduce before they multiply, so that intermediate
\* values stay as small as the results
RAdd(a, b) ==
    LET g == GCD(a[2], b[2])
    IN  Rat(a[1] * (b[2] \div g) + b[1] * (a[2] \div g), (a[2] \div g) * b[2])

RSub(a, b) == RAdd(a, <<-b[1], b[2]>>)

RMul(a, b) ==
    LET g1 == GCD(Abs(a[1]), b[2])
        g2 == GCD(Abs(b[1]), a[2])
    IN  Rat((a[1] \div g1) * (b[1] \div g2), (a[2] \div g2) * (b[2] \div g1))

\* a / b for b # 0
RDiv(a, b) == RMul(a, Rat(b[2], b[1]))

RNeg(a) == <<-a[1], a[2]>>

RLess(a, b) == a[1] * b[2] < b[1] * a[2]

RFloor(a) == a[1] \div a[2]

\* Python's int(x) on a float: truncation toward zero
PyInt(a) == IF a[1] >= 0 THEN a[1] \div a[2] ELSE -((-a[1]) \div a[2])

---------------------------------------------------------------------------
(* Derivative functions handed to the integrator.  exp_decay_dt is the     *)
(* notebook's; the others are caller-supplied test functions:              *)
(*   zero(y, t) = 0, one(y, t) = 1, time(y, t) = t,                        *)
(*   fails_late(y, t): raises RuntimeError if t >= 1, else returns -y,     *)
(*   fails_negative(y, t): raises ArithmeticError if y < 0, else returns -8*)

exp_decay_dt(y, t) == RNeg(y)          \* -k * y with the default k = 1

Derivatives == {"exp_decay_dt", "zero", "one", "time", "fails_late",
                "fails_negative"}

\* the value the call dydt(y, t) returns
Apply(dydt, y, t) ==
    CASE dydt = "exp_decay_dt"   -> exp_decay_dt(y, t)
      [] dydt = "zero"           -> FromInt(0)
      [] dydt = "one"            -> FromInt(1)
      [] dydt = "time"           -> t
      [] dydt = "fails_late"     -> RNeg(y)
      [] dydt = "fails_negative" -> FromInt(-8)

\* the exception the call dydt(y, t) raises, "ok" when it returns
Outcome(dydt, y, t) ==
    CASE dydt = "fails_late" ->
            IF RLess(t, FromInt(1)) THEN "ok" ELSE "RuntimeError"
      [] dydt = "fails_negative" ->
            IF y[1] < 0 THEN "ArithmeticError" ELSE "ok"
      [] OTHER -> "ok"

---------------------------------------------------------------------------
(* solve_ode_euler                                                         *)

Raised(e) == [status |-> e, t_values |-> <<>>, y_values |-> <<>>]

Returned(t, y) == [status |-> "ok", t_values |-> t, y_values |-> y]

NoResult == Raised("none")

\* np.linspace(start, stop, num) for num >= 0: num evenly spaced samples,
\* the last one being stop
linspace(start, stop, num) ==
    [k \in 1..num |->
        IF num = 1 THEN start
        ELSE IF k = num THEN stop
        ELSE RAdd(start, RMul(FromInt(k - 1),
                              RDiv(RSub(stop, start), FromInt(num - 1))))]

\* np.zeros(num) for num >= 0
zeros(num) == [k \in 1..num |-> FromInt(0)]

\* one pass of the loop body, y_values[i+1] = y_values[i] + dydt(...) * Dt,
\* with Python's index i held as the 1-based position i + 1
EulerStep_plusDt(dydt, Dt, t_values, y_values, i) ==
    [y_values EXCEPT ![i + 2] =
        RAdd(y_values[i + 1],
             RAdd(Apply(dydt, y_values[i + 1], t_values[i + 1]), Dt))]

EulerStep(dydt, Dt, t_values, y_values, i) ==
    [y_values EXCEPT ![i + 2] =
        RAdd(y_values[i + 1],
             RMul(Apply(dydt, y_values[i + 1], t_values[i + 1]), Dt))]

\* for i in range(n_steps), from index i on: the array as the loop leaves
\* it and the outcomes of its dydt calls; a call that raises ends the loop
RECURSIVE EulerLoop(_, _, _, _, _, _)
EulerLoop(dydt, Dt, t_values, y_values, i, n_steps) ==
    IF i >= n_steps THEN [y_values |-> y_values, evals |-> <<>>]
    ELSE LET o == Outcome(dydt, y_values[i + 1], t_values[i + 1]) IN
         IF o # "ok" THEN [y_values |-> y_values, evals |-> <<o>>]
         ELSE LET rest == EulerLoop(dydt, Dt, t_values,
                                    EulerStep(dydt, Dt, t_values, y_values, i),
                                    i + 1, n_steps)
              IN  [rest EXCEPT !.evals = <<o>> \o @]

\* the exception that ended the loop, "ok" when the loop ran to its end
LoopOutcome(loop) ==
    IF loop.evals = <<>> THEN "ok" ELSE loop.evals[Len(loop.evals)]

Leave_partial(loop, t_values) ==
    [result |-> Returned(t_values, loop.y_values), evals |-> loop.evals]

\* how control leaves the function after the loop: by the return statement,
\* or, the loop being unguarded, by the exception of dydt
Leave(loop, t_values) ==
    [result |-> IF LoopOutcome(loop) = "ok"
                THEN Returned(t_values, loop.y_values)
                ELSE Raised(LoopOutcome(loop)),
     evals  |-> loop.evals]

Steps_ceil(Dt, t_end) ==
    LET q == RDiv(t_end, Dt) IN IF q[2] = 1 THEN q[1] ELSE RFloor(q) + 1

\* n_steps = int(t_end / Dt), for Dt # 0
Steps(Dt, t_end) == PyInt(RDiv(t_end, Dt))

InitialValue_skipped(y_values, y0) == y_values

\* y_values[0] = y0
InitialValue(y_values, y0) == [y_values EXCEPT ![1] = y0]

\* an exception raised before the loop is entered
RaisedEarly(e) == [result |-> Raised(e), evals |-> <<>>]

\* one execution of solve_ode_euler: what it returns or raises, and the
\* outcomes of the dydt calls it made
EulerRun(dydt, y0, Dt, t_end) ==
    IF Dt[1] = 0 THEN RaisedEarly("ZeroDivisionError")        \* t_end / Dt
    ELSE LET n_steps == Steps(Dt, t_end) IN
         IF n_steps + 1 < 0 THEN RaisedEarly("ValueError")    \* np.linspace
         ELSE IF n_steps + 1 = 0 THEN RaisedEarly("IndexError") \* y_values[0]
         ELSE LET t_values == linspace(FromInt(0), t_end, n_steps + 1)
                  y_values == InitialValue(zeros(n_steps + 1), y0)
              IN  Leave(EulerLoop(dydt, Dt, t_values, y_values, 0, n_steps),
                        t_values)

solve_ode_euler(dydt, y0, Dt, t_end) == EulerRun(dydt, y0, Dt, t_end).result

\* one execution of solve_ode_euler with a list of two or more numbers as
\* y0: y_values is the one-dimensional float array of np.zeros, and numpy
\* refuses to store a sequence in one of its elements (ValueError: setting
\* an array element with a sequence)
EulerRunList(dydt, y0, Dt, t_end) ==
    IF Dt[1] = 0 THEN RaisedEarly("ZeroDivisionError")        \* t_end / Dt
    ELSE LET n_steps == Steps(Dt, t_end) IN
         IF n_steps + 1 < 0 THEN RaisedEarly("ValueError")    \* np.linspace
         ELSE IF n_steps + 1 = 0 THEN RaisedEarly("IndexError") \* y_values[0]
         ELSE RaisedEarly("ValueError")                  \* y_values[0] = y0


---------------------------------------------------------------------------
(* Direct calls of solve_ode_euler: the arguments a caller may pass.       *)

MaxDt == 3        \* |Dt| <= MaxDt / 2
MaxTEnd == 5      \* |t_end| <= MaxTEnd / 2

DtInputs == {Rat(k, 2) : k \in -MaxDt..MaxDt}

TEndInputs == {Rat(m, 2) : m \in -MaxTEnd..MaxTEnd}

Y0Inputs == {FromInt(10), FromInt(-1)}

EulerCall(dydt, y0, Dt, t_end) ==
    [integrator |-> "solve_ode_euler", dydt |-> dydt, y0 |-> y0,
     Dt |-> Dt, t_end |-> t_end]

NoCall == [integrator |-> "none", dydt |-> "none", y0 |-> FromInt(0),
           Dt |-> FromInt(0), t_end |-> FromInt(0)]

\* the function f as an explicit table: its values are computed once
Table(f) == f @@ <<>>

\* the executions of solve_ode_euler for the arguments drawn, by argument
\* tuple (the function is pure: an execution is determined by its arguments)
EulerRuns ==
    Table([a \in Derivatives \X Y0Inputs \X DtInputs \X TEndInputs |->
              EulerRun(a[1], a[2], a[3], a[4])])

\* a cell evaluating solve_ode_euler(dydt, y0, Dt, t_end)
CallSolveOdeEuler(dydt, y0, Dt, t_end) ==
    /\ call' = EulerCall(dydt, y0, Dt, t_end)
    /\ LET run == EulerRuns[<<dydt, y0, Dt, t_end>>] IN
        /\ ret' = run.result
        /\ evals' = run.evals
    /\ UNCHANGED harnessVars
    /\ UNCHANGED kernelVars
    /\ UNCHANGED <<conv, deriv>>
    /\ UNCHANGED symbolicVars

\* initial states given as lists: [5, 4.4] and [100, 70, 50]
ListY0Inputs ==
    {<<FromInt(5), Rat(44, 10)>>, <<FromInt(100), FromInt(70), FromInt(50)>>}

\* a cell evaluating solve_ode_euler(dydt, y0, Dt, t_end) with a list y0
CallSolveOdeEulerList(dydt, y0, Dt, t_end) ==
    /\ call' = EulerCall(dydt, y0, Dt, t_end)
    /\ LET run == EulerRunList(dydt, y0, Dt, t_end) IN
        /\ ret' = run.result
        /\ evals' = run.evals
    /\ UNCHANGED harnessVars
    /\ UNCHANGED kernelVars
    /\ UNCHANGED <<conv, deriv>>
    /\ UNCHANGED symbolicVars

---------------------------------------------------------------------------
(* The call solve_ode_euler(exp_decay_dt, y0=10, Dt=0.001, t_end=1), one   *)
(* pass of its loop at a time.  Its 1000 values are not multiples of 1/2:  *)
(* each y_values[i] is held as a pair of integer bounds lo <= y <= hi in   *)
(* millionths.  Every operation rounds its bounds outward, by one          *)
(* millionth more than the exact operation needs, which covers the         *)
(* rounding of the binary64 operation and of the constant 0.001.           *)

\* bounds of -k * y for the default k = 1
exp_decay_dt_bounds(y) == [lo |-> -y.hi, hi |-> -y.lo]

\* bounds of d * Dt for Dt = 0.001
TimesDt(d) ==
    [lo |-> (d.lo \div 1000) - 1, hi |-> -((-d.hi) \div 1000) + 1]

EulerStepBounds_timesDtTwice(y) ==
    LET d == TimesDt(TimesDt(exp_decay_dt_bounds(y)))
    IN  [lo |-> y.lo + d.lo, hi |-> y.hi + d.hi]

\* bounds of y_values[i+1] = y_values[i] + dydt(y_values[i], t_values[i]) * Dt
EulerStepBounds(y) ==
    LET d == TimesDt(exp_decay_dt_bounds(y))
    IN  [lo |-> y.lo + d.lo, hi |-> y.hi + d.hi]

\* before the loop: n_steps = int(1 / 0.001) and y_values[0] = 10
ConvergenceStart ==
    [i |-> 0, n_steps |-> Steps(Rat(1, 1000), FromInt(1)),
     y |-> [lo |-> 10 * 1000000, hi |-> 10 * 1000000]]

\* one pass of the loop body
EulerIteration ==
    /\ conv.i < conv.n_steps
    /\ conv' = [conv EXCEPT !.i = @ + 1, !.y = EulerStepBounds(@)]
    /\ UNCHANGED <<call, ret, evals, deriv>>
    /\ UNCHANGED symbolicVars
    /\ UNCHANGED harnessVars
    /\ UNCHANGED kernelVars

---------------------------------------------------------------------------
(* The derivative functions of SS_7.ipynb (Solow) and of the Kaldor        *)
(* notebook, called directly.  Arguments are drawn where Python's results  *)
(* are rational: the exponents 0, 1/2 and 1 on squares.                    *)

init_conditions == <<FromInt(100), FromInt(70), FromInt(50)>>

u0 == <<FromInt(5), Rat(44, 10)>>      \* [5, 4.4]

IsSquare(m) == \E r \in 0..m : r * r = m

Sqrt(m) == CHOOSE r \in 0..m : r * r = m

\* whether x ** a is computed here: a is 0, 1, 2 or 3, or 1/2 and x a square
PowDefined(x, a) ==
    \/ a \in {<<0, 1>>, <<1, 1>>, <<2, 1>>, <<3, 1>>}
    \/ a = <<1, 2>> /\ x[1] >= 0 /\ IsSquare(x[1]) /\ IsSquare(x[2])

\* x ** a
Pow(x, a) ==
    CASE a = <<0, 1>> -> FromInt(1)
      [] a = <<1, 1>> -> x
      [] a = <<2, 1>> -> RMul(x, x)
      [] a = <<3, 1>> -> RMul(RMul(x, x), x)
      [] a = <<1, 2>> -> <<Sqrt(x[1]), Sqrt(x[2])>>

output_per_worker(A, k, alpha) == RMul(A, Pow(k, alpha))

total_output(A, K, alpha, L) ==
    RMul(RMul(A, Pow(K, alpha)), Pow(L, RSub(FromInt(1), alpha)))

\* Python's y[0], y[1], y[2] are y[1], y[2], y[3] here
intensive_dynamics(y, t, A, alpha, delta, n, s) ==
    LET output == output_per_worker(A, y[2], alpha)
        dk_dt  == RSub(RSub(RMul(s, y[1]), RMul(n, y[2])), RMul(delta, y[2]))
    IN  <<output, dk_dt>>

extensive_dynamics(y, t, A, alpha, delta, n, s) ==
    LET output == total_output(A, y[2], alpha, y[3])
        dK_dt  == RSub(RMul(s, y[1]), RMul(delta, y[2]))
        dL_dt  == RMul(n, y[3])
    IN  <<output, dK_dt, dL_dt>>

\* the solution sympy prints for s*A*k**alpha - (n+delta)*k = 0:
\* (A*s/(delta + n))**(-1/(alpha - 1)), at numeric parameter values
k_star(A, alpha, delta, n, s) ==
    Pow(RDiv(RMul(A, s), RAdd(delta, n)),
        RDiv(FromInt(-1), RSub(alpha, FromInt(1))))

\* whether k_star and the output at k_star are computed here
SteadyStateDefined(A, alpha, delta, n, s) ==
    /\ alpha # FromInt(1)
    /\ RAdd(delta, n) # FromInt(0)
    /\ PowDefined(RDiv(RMul(A, s), RAdd(delta, n)),
                  RDiv(FromInt(-1), RSub(alpha, FromInt(1))))
    /\ PowDefined(k_star(A, alpha, delta, n, s), alpha)

\* the steady state (y, k): k = k_star and y = A*k_star**alpha
SteadyState(A, alpha, delta, n, s) ==
    <<RMul(A, Pow(k_star(A, alpha, delta, n, s), alpha)),
      k_star(A, alpha, delta, n, s)>>

\* np.exp at the arguments drawn, to four significant digits
np_exp(x) ==
    CASE x = <<0, 1>>  -> FromInt(1)
      [] x = <<-5, 2>> -> Rat(8208, 100000)
      [] x = <<5, 1>>  -> Rat(14841, 100)

investment(Y, K) ==
    LET Y_term == RDiv(FromInt(1),
                       RAdd(FromInt(1),
                            np_exp(RMul(Rat(-5, 2), RSub(Y, FromInt(4))))))
        K_term == RDiv(K, FromInt(2))
    IN  RSub(RAdd(FromInt(3), Y_term), K_term)

savings(Y, s) == RMul(s, Y)

dYdt_alphaOnInvestment(I, S, alpha) == RSub(RMul(alpha, I), S)

dYdt(I, S, alpha) == RMul(alpha, RSub(I, S))

dKdt(K, I, delta) == RSub(I, RMul(delta, K))

kaldor_system_savingsForCapital(YK, t, s, alpha, delta) ==
    LET Y == YK[1]
        K == YK[2]
    IN  <<dYdt(investment(Y, K), savings(Y, s), alpha),
          dKdt(K, savings(Y, s), delta)>>

kaldor_system(YK, t, s, alpha, delta) ==
    LET Y == YK[1]
        K == YK[2]
    IN  <<dYdt(investment(Y, K), savings(Y, s), alpha),
          dKdt(K, investment(Y, K), delta)>>

\* the sympy expressions dx_dt and dy_dt of the coupled system with a cubic
\* term, with numbers substituted for all their symbols: sums of the terms
\* alpha*x, -beta*x**2, -gamma*x*y and delta*y, -epsilon*y**3, -x*y
dx_dt(x, y, alpha, beta, gamma, delta, epsilon) ==
    RAdd(RAdd(RMul(alpha, x), RMul(RNeg(beta), Pow(x, FromInt(2)))),
         RMul(RNeg(gamma), RMul(x, y)))

dy_dt(x, y, alpha, beta, gamma, delta, epsilon) ==
    RAdd(RAdd(RMul(delta, y), RMul(RNeg(epsilon), Pow(y, FromInt(3)))),
         RNeg(RMul(x, y)))

lv_system_squaredLoss(x, t, a, b, g, d, e) ==
    <<RSub(RSub(RMul(a, x[1]), RMul(b, Pow(x[1], FromInt(2)))),
           RMul(RMul(g, x[1]), x[2])),
      RSub(RSub(RMul(d, x[2]), RMul(e, Pow(x[2], FromInt(2)))),
           RMul(x[1], x[2]))>>

\* Python's x[0], x[1] are x[1], x[2] here; the operations in Python's order
lv_system(x, t, a, b, g, d, e) ==
    <<RSub(RSub(RMul(a, x[1]), RMul(b, Pow(x[1], FromInt(2)))),
           RMul(RMul(g, x[1]), x[2])),
      RSub(RSub(RMul(d, x[2]), RMul(e, Pow(x[2], FromInt(3)))),
           RMul(x[1], x[2]))>>

DerivativeCall(func, y, t, args, value) ==
    [func |-> func, y |-> y, t |-> t, args |-> args, value |-> value]

NoDerivative == DerivativeCall("none", <<>>, FromInt(0), <<>>, <<>>)

\* states (Y, K, L) and (y, k) of the Solow model: init_conditions and
\* states with square K, L and k
ExtensiveStates ==
    {init_conditions, <<FromInt(100), FromInt(4), FromInt(9)>>,
     <<FromInt(12), FromInt(4), FromInt(9)>>}

IntensiveStates ==
    {SubSeq(init_conditions, 1, 2), <<FromInt(6), FromInt(9)>>,
     <<FromInt(100), FromInt(9)>>}

\* states (Y, K) of the Kaldor model: u0, two states off the trajectory and
\* (4, 5), where investment and savings are 1 at s = 0.25
KaldorStates ==
    {u0, <<FromInt(4), FromInt(7)>>, <<FromInt(2), FromInt(0)>>,
     <<FromInt(4), FromInt(5)>>}

\* states (x, y) of the coupled system: points of the plotted square
\* [0, 3.5] x [0, 3.5] and points outside it
LvStates ==
    {<<FromInt(0), FromInt(0)>>, <<FromInt(3), FromInt(0)>>,
     <<FromInt(1), FromInt(2)>>, <<Rat(3, 2), Rat(1, 2)>>,
     <<Rat(7, 2), Rat(7, 2)>>, <<FromInt(-3), FromInt(2)>>,
     <<FromInt(2), FromInt(-1)>>}

\* positions of the sliders a, b, g (0 to 5), d (0 to 10) and e (0 to 5)
LvParameters ==
    [a : {FromInt(0), FromInt(3)}, b : {FromInt(0), FromInt(1)},
     g : {FromInt(1), FromInt(3)}, d : {FromInt(2), FromInt(5)},
     e : {Rat(1, 2), FromInt(2)}]

\* positions of the alpha slider (0.01, 3.0, 0.01): its ends, 1 and the 2.2
\* the phase diagram fixes
KaldorAlphas == {Rat(1, 100), FromInt(1), Rat(22, 10), FromInt(3)}

TimeInputs == {FromInt(0), FromInt(5)}

\* parameter values within the sliders' ranges
SolowParameters ==
    [A : {FromInt(0), FromInt(2)}, alpha : {FromInt(0), Rat(1, 2), FromInt(1)},
     delta : {Rat(15, 100)}, n : {Rat(4, 10), FromInt(1)},
     s : {FromInt(0), Rat(35, 100)}]

KaldorParameters ==
    [s : {Rat(25, 100)}, alpha : KaldorAlphas,
     delta : {Rat(1, 100), Rat(15, 100), Rat(2, 10), Rat(3, 10)}]

\* a cell evaluating intensive_dynamics(y, t, A, alpha, delta, n, s)
CallIntensiveDynamics(y, t, p) ==
    /\ PowDefined(y[2], p.alpha)
    /\ deriv' = DerivativeCall("intensive_dynamics", y, t,
                     <<p.A, p.alpha, p.delta, p.n, p.s>>,
                     intensive_dynamics(y, t, p.A, p.alpha, p.delta, p.n, p.s))
    /\ UNCHANGED <<call, ret, evals, conv>>
    /\ UNCHANGED symbolicVars
    /\ UNCHANGED harnessVars
    /\ UNCHANGED kernelVars

\* a cell evaluating intensive_dynamics at the steady state of its
\* parameter values
CallAtSteadyState(t, p) ==
    /\ SteadyStateDefined(p.A, p.alpha, p.delta, p.n, p.s)
    /\ CallIntensiveDynamics(SteadyState(p.A, p.alpha, p.delta, p.n, p.s),
                             t, p)

\* a cell evaluating extensive_dynamics(y, t, A, alpha, delta, n, s)
CallExtensiveDynamics(y, t, p) ==
    /\ PowDefined(y[2], p.alpha)
    /\ PowDefined(y[3], RSub(FromInt(1), p.alpha))
    /\ deriv' = DerivativeCall("extensive_dynamics", y, t,
                     <<p.A, p.alpha, p.delta, p.n, p.s>>,
                     extensive_dynamics(y, t, p.A, p.alpha, p.delta, p.n, p.s))
    /\ UNCHANGED <<call, ret, evals, conv>>
    /\ UNCHANGED symbolicVars
    /\ UNCHANGED harnessVars
    /\ UNCHANGED kernelVars

\* a cell evaluating kaldor_system(YK, t, s, alpha, delta)
CallKaldorSystem(YK, t, p) ==
    /\ deriv' = DerivativeCall("kaldor_system", YK, t,
                     <<p.s, p.alpha, p.delta>>,
                     kaldor_system(YK, t, p.s, p.alpha, p.delta))
    /\ UNCHANGED <<call, ret, evals, conv>>
    /\ UNCHANGED symbolicVars
    /\ UNCHANGED harnessVars
    /\ UNCHANGED kernelVars

\* a cell evaluating lv_system([x, y], t, a, b, g, d, e)
CallLvSystem(x, t, p) ==
    /\ deriv' = DerivativeCall("lv_system", x, t, <<p.a, p.b, p.g, p.d, p.e>>,
                     lv_system(x, t, p.a, p.b, p.g, p.d, p.e))
    /\ UNCHANGED <<call, ret, evals, conv>>
    /\ UNCHANGED symbolicVars
    /\ UNCHANGED harnessVars
    /\ UNCHANGED kernelVars

---------------------------------------------------------------------------
(* The interactive functions.  Slider values are held in hundredths.       *)

Harnesses == {"euler", "logistic", "wage", "extensive", "kaldor"}

Slider(lo, hi, step, value) ==
    [min |-> lo, max |-> hi, step |-> step, value |-> value]

\* The sliders interact() builds for each function: (min, max, step) from the
\* abbreviation, the initial value from the function's default argument or,
\* without one, the midpoint shown in the cell's output.

\* interact(solve_and_plot, Dt=(0.0, 2.0, 0.1)) of 2_odes.ipynb
solve_and_plot_sliders == [Dt |-> Slider(0, 200, 10, 100)]

\* r_slider, K_slider, P0_slider of self_study_02.ipynb
plot_func_sliders ==
    [r   |-> Slider(0, 100, 1, 10),
     K   |-> Slider(10000, 500000, 5000, 100000),
     P_0 |-> Slider(100, 10000, 100, 100)]

plot_wage_dynamics_sliders ==
    [A     |-> Slider(0, 1000, 10, 100),
     alpha |-> Slider(0, 100, 1, 40),
     delta |-> Slider(0, 100, 1, 20),
     n     |-> Slider(0, 400, 10, 100),
     s     |-> Slider(0, 100, 1, 40)]

plot_extensive_dynamics_sliders ==
    [A     |-> Slider(0, 1000, 10, 200),
     alpha |-> Slider(0, 100, 1, 50),
     delta |-> Slider(0, 100, 1, 15),
     n     |-> Slider(0, 400, 10, 40),
     s     |-> Slider(0, 100, 1, 35)]

\* interact(solve_and_plot, alpha=fixed(2.2), delta=(0.01, 0.3, 0.01),
\* s=fixed(0.25)) of the Kaldor notebook
kaldor_sliders == [delta |-> Slider(1, 30, 1, 15)]

Sliders(h) ==
    CASE h = "euler"     -> solve_and_plot_sliders
      [] h = "logistic"  -> plot_func_sliders
      [] h = "wage"      -> plot_wage_dynamics_sliders
      [] h = "extensive" -> plot_extensive_dynamics_sliders
      [] h = "kaldor"    -> kaldor_sliders

\* keyword arguments interact() passes unchanged: fixed(2.2), fixed(0.25)
Fixed(h) ==
    IF h = "kaldor" THEN [alpha |-> 220, s |-> 25] ELSE <<>>

Defaults(h) == [k \in DOMAIN Sliders(h) |-> Sliders(h)[k].value]

\* the keyword arguments of a call made for slider values w
Kwargs(h, w) ==
    [k \in DOMAIN w \cup DOMAIN Fixed(h) |->
        IF k \in DOMAIN w THEN w[k] ELSE Fixed(h)[k]]

\* slider positions a change event moves a slider to
Positions(h) ==
    CASE h = "euler"     -> [Dt |-> {0, 50, 100, 150, 200}]
      [] h = "logistic"  -> [r |-> {0, 10, 100}, K |-> {10000, 100000},
                             P_0 |-> {100, 5000, 10000}]
      [] h = "wage"      -> [A |-> {0, 100}, alpha |-> {40, 100},
                             delta |-> {20, 100}, n |-> {0, 100},
                             s |-> {40, 100}]
      [] h = "extensive" -> [A |-> {200, 1000}, alpha |-> {0, 50},
                             delta |-> {0, 15}, n |-> {40, 400},
                             s |-> {0, 35}]
      [] h = "kaldor"    -> [delta |-> {1, 15, 20, 30}]

\* values a direct call passes for a keyword, inside and outside the range
Probes(h) ==
    CASE h = "euler"     -> [Dt |-> {-50, 50, 250, 300}]
      [] h = "logistic"  -> [r |-> {-10, 200}, K |-> {5000},
                             P_0 |-> {0, 20000}]
      [] h = "wage"      -> [A |-> {-100, 1100}, alpha |-> {150},
                             delta |-> {-10}, n |-> {500}, s |-> {110}]
      [] h = "extensive" -> [A |-> {-100, 1100}, alpha |-> {150},
                             delta |-> {-10}, n |-> {500}, s |-> {110}]
      [] h = "kaldor"    -> [delta |-> {0, 50}]

solve_and_plot_y0 == FromInt(10)       \* y0 = 10

InitialState_fromSlider(h, kw) ==
    CASE h = "euler"     -> Rat(kw.Dt, 100)
      [] h = "logistic"  -> Rat(kw.P_0, 100)
      [] h = "wage"      -> SubSeq(init_conditions, 1, 2)
      [] h = "extensive" -> init_conditions
      [] h = "kaldor"    -> <<FromInt(5), Rat(kw.delta, 100)>>

InitialState_warmStart(h, kw) ==
    CASE h = "euler"     -> IF ret.status = "ok"
                            THEN ret.y_values[Len(ret.y_values)]
                            ELSE solve_and_plot_y0
      [] h = "logistic"  -> Rat(kw.P_0, 100)
      [] h = "wage"      -> IF ret.status = "ok" THEN <<FromInt(0), FromInt(0)>>
                            ELSE SubSeq(init_conditions, 1, 2)
      [] h = "extensive" -> init_conditions
      [] h = "kaldor"    -> u0

\* the initial state each function hands to its integrator
InitialState(h, kw) ==
    CASE h = "euler"     -> solve_and_plot_y0
      [] h = "logistic"  -> Rat(kw.P_0, 100)                \* P_0
      [] h = "wage"      -> SubSeq(globals.init_conditions, 1, 2)   \* [:2]
      [] h = "extensive" -> globals.init_conditions
      [] h = "kaldor"    -> u0

\* the array np.linspace(start, stop, num) of an odeint call, named by its
\* arguments: odeint's samples are not computed here, so neither is its grid
Grid(start, stop, num) == [start |-> start, stop |-> stop, num |-> num]

\* the time grid each odeint call integrates over
TimeGrid(h) ==
    CASE h = "logistic"  -> Grid(0, 100, 500)
      [] h = "wage"      -> globals.t
      [] h = "extensive" -> globals.t
      [] h = "kaldor"    -> Grid(0, 200, 400)

\* the module-level data the interactive functions of a notebook read:
\* init_conditions and t of SS_7.ipynb; the other functions build theirs
\* as locals
ModuleData(h) ==
    IF h \in {"wage", "extensive"}
    THEN [init_conditions |-> init_conditions, t |-> Grid(0, 5, 50)]
    ELSE <<>>

Retained_sharedBuffer(old, new) ==
    IF old.status = "ok" /\ new.status = "ok" THEN new ELSE old

\* a trajectory returned earlier, after a later run returned new: each run
\* allocates the arrays it returns, so the earlier ones are not written
Retained(old, new) == old

DerivativeOf(h) ==
    CASE h = "euler"     -> "exp_decay_dt"
      [] h = "logistic"  -> "logistic_growth"
      [] h = "wage"      -> "intensive_dynamics"
      [] h = "extensive" -> "extensive_dynamics"
      [] h = "kaldor"    -> "kaldor_system"

\* logistic_growth ends in a bare return: it yields None
ReturnsNone(func) == func = "logistic_growth"

OdeintCall(func, y0, t, args) ==
    [integrator |-> "odeint", dydt |-> func, y0 |-> y0, t |-> t,
     args |-> args]

\* scipy's odeint(func, y0, t, args): its first row is y0, the rest is the
\* library's solution of the system for those arguments
odeint(func, y0, t, args) ==
    IF ReturnsNone(func) THEN Raised("odeint.error")
    ELSE Returned(t, [first |-> y0, func |-> func, args |-> args])

\* the args tuple each odeint call passes on to its derivative function
OdeintArgs(h, kw) ==
    CASE h = "logistic"  -> <<kw.r, kw.K>>
      [] h = "wage"      -> <<kw.A, kw.alpha, kw.delta, kw.n, kw.s>>
      [] h = "extensive" -> <<kw.A, kw.alpha, kw.delta, kw.n, kw.s>>
      [] h = "kaldor"    -> <<kw.s, kw.alpha, kw.delta>>

\* the integrator call an interactive function makes for keyword arguments kw
IntegratorCall(h, kw) ==
    IF h = "euler"
    THEN EulerCall(DerivativeOf(h), InitialState(h, kw), Rat(kw.Dt, 100),
                   FromInt(10))
    ELSE OdeintCall(DerivativeOf(h), InitialState(h, kw), TimeGrid(h),
                    OdeintArgs(h, kw))

IntegratorResult(h, c) ==
    IF h = "euler" THEN solve_ode_euler(c.dydt, c.y0, c.Dt, c.t_end)
    ELSE odeint(c.dydt, c.y0, c.t, c.args)

\* the dydt calls of solve_ode_euler; those of odeint are the library's
IntegratorEvals(h, c) ==
    IF h = "euler" THEN EulerRun(c.dydt, c.y0, c.Dt, c.t_end).evals
    ELSE <<>>

MaxEvents == 3

Run_rendersAnyway(kw) ==
    /\ lastArgs' = kw
    /\ IF ~libs
       THEN UNCHANGED <<call, ret, evals, plot, runs, renders, globals,
                        earlier>>
       ELSE LET c == IntegratorCall(nb, kw)
                r == IntegratorResult(nb, c)
            IN  /\ call' = c
                /\ ret' = r
                /\ evals' = IntegratorEvals(nb, c)
                /\ globals' = globals
                /\ earlier' = Retained(ret, r)
                /\ runs' = runs + 1
                /\ plot' = r
                /\ renders' = renders + 1

\* one execution of the interactive function with keyword arguments kw: the
\* integrator call, then, when it returns, the plotting calls
Run(kw) ==
    /\ lastArgs' = kw
    /\ IF ~libs
       THEN UNCHANGED <<call, ret, evals, plot, runs, renders, globals,
                        earlier>>                          \* NameError: np
       ELSE LET c == IntegratorCall(nb, kw)
                r == IntegratorResult(nb, c)
            IN  /\ call' = c
                /\ ret' = r
                /\ evals' = IntegratorEvals(nb, c)
                /\ globals' = globals         \* odeint works on copies
                /\ earlier' = Retained(ret, r)
                /\ runs' = runs + 1
                /\ IF r.status = "ok"
                   THEN plot' = r /\ renders' = renders + 1
                   ELSE UNCHANGED <<plot, renders>>

Interact_deferred ==
    /\ ~shown
    /\ shown' = TRUE
    /\ widget' = Defaults(nb)
    /\ UNCHANGED <<call, ret, evals, nb, libs, lastArgs, plot, runs, renders,
                   events, invokes, globals, earlier>>
    /\ UNCHANGED kernelVars
    /\ UNCHANGED <<conv, deriv>>
    /\ UNCHANGED symbolicVars

\* executing the cell that calls interact(): the function runs once with
\* the sliders' initial values
Interact ==
    /\ ~shown
    /\ shown' = TRUE
    /\ widget' = Defaults(nb)
    /\ Run(Kwargs(nb, Defaults(nb)))
    /\ UNCHANGED <<nb, libs, events, invokes>>
    /\ UNCHANGED kernelVars
    /\ UNCHANGED <<conv, deriv>>
    /\ UNCHANGED symbolicVars

\* the user moves slider k to v: the function runs with the new values
SliderEvent(k, v) ==
    /\ shown
    /\ events + invokes < MaxEvents
    /\ v # widget[k]
    /\ widget' = [widget EXCEPT ![k] = v]
    /\ events' = events + 1
    /\ Run(Kwargs(nb, widget'))
    /\ UNCHANGED <<nb, libs, shown, invokes>>
    /\ UNCHANGED kernelVars
    /\ UNCHANGED <<conv, deriv>>
    /\ UNCHANGED symbolicVars

\* a cell calls the function itself, passing v for keyword k
Invoke(k, v) ==
    /\ shown
    /\ events + invokes < MaxEvents
    /\ invokes' = invokes + 1
    /\ Run(Kwargs(nb, [widget EXCEPT ![k] = v]))
    /\ UNCHANGED <<nb, libs, shown, widget, events>>
    /\ UNCHANGED kernelVars
    /\ UNCHANGED <<conv, deriv>>
    /\ UNCHANGED symbolicVars

---------------------------------------------------------------------------
(* Slider events as the kernel handles them.  The front end sends one      *)
(* message per slider change; the kernel takes the messages in the order   *)
(* sent and executes the interactive function for each.  The function is a *)
(* plain def that calls its integrator and returns: the kernel takes the   *)
(* next message when the call has returned or raised.                      *)

\* the value the front end shows for slider k: the last one sent
FrontValue(k) ==
    LET pending == {i \in 1..Len(queue) : queue[i].k = k}
    IN  IF pending = {} THEN widget[k]
        ELSE queue[CHOOSE i \in pending : \A j \in pending : j <= i].v

\* the user moves slider k to v while the kernel may be busy
Arrive(k, v) ==
    /\ shown
    /\ arrived < MaxEvents
    /\ v # FrontValue(k)
    /\ arrived' = arrived + 1
    /\ queue' = Append(queue, [id |-> arrived + 1, k |-> k, v |-> v])
    /\ UNCHANGED <<call, ret, evals, inflight, done, conv, deriv>>
    /\ UNCHANGED symbolicVars
    /\ UNCHANGED harnessVars

BeginRun_reentrant ==
    /\ queue # <<>>
    /\ LET m == Head(queue) IN
        /\ widget' = [widget EXCEPT ![m.k] = m.v]
        /\ inflight' = inflight \cup {[id |-> m.id, kw |-> Kwargs(nb, widget')]}
    /\ queue' = Tail(queue)
    /\ UNCHANGED <<call, ret, evals, nb, libs, shown, lastArgs, plot, runs,
                   renders, events, invokes, done, arrived, globals, earlier,
                   conv, deriv>>
    /\ UNCHANGED symbolicVars

\* the kernel, not executing anything, takes the oldest message: the slider
\* value is set and the function is entered with the current values
BeginRun ==
    /\ queue # <<>>
    /\ inflight = {}
    /\ LET m == Head(queue) IN
        /\ widget' = [widget EXCEPT ![m.k] = m.v]
        /\ inflight' = inflight \cup {[id |-> m.id, kw |-> Kwargs(nb, widget')]}
    /\ queue' = Tail(queue)
    /\ UNCHANGED <<call, ret, evals, nb, libs, shown, lastArgs, plot, runs,
                   renders, events, invokes, done, arrived, globals, earlier,
                   conv, deriv>>
    /\ UNCHANGED symbolicVars

\* the function entered for message e.id runs to its return or its exception
EndRun(e) ==
    /\ e \in inflight
    /\ inflight' = inflight \ {e}
    /\ done' = Append(done, e.id)
    /\ events' = events + 1
    /\ Run(e.kw)
    /\ UNCHANGED <<nb, libs, shown, widget, invokes, queue, arrived, conv,
                   deriv>>
    /\ UNCHANGED symbolicVars

---------------------------------------------------------------------------
(* The fixed points of the coupled system with a cubic term, their overlay *)
(* on the phase portrait and their stability.  The numbers sympy computes  *)
(* are held in thousandths, every operation rounded to the nearest one.    *)
(* Parameter values are drawn where sympy's results are real and finite.   *)

\* n / d to the nearest integer, d > 0
Round(n, d) == (2 * n + d) \div (2 * d)

FxMul(a, b) == Round(a * b, 1000)

\* a / b for b # 0
FxDiv(a, b) == IF b < 0 THEN Round(-a * 1000, -b) ELSE Round(a * 1000, b)

\* the largest r in lo..hi with r * r <= n
RECURSIVE ISqrtIn(_, _, _)
ISqrtIn(n, lo, hi) ==
    IF lo = hi
    THEN lo
    ELSE LET mid == (lo + hi + 1) \div 2
         IN  IF mid * mid <= n
             THEN ISqrtIn(n, mid, hi)
             ELSE ISqrtIn(n, lo, mid - 1)

\* sqrt(a) for a >= 0
FxSqrt(a) == ISqrtIn(a * 1000, 0, 46340)

\* -4*alpha*beta*epsilon + 4*beta**2*delta*epsilon + gamma**2, the term under
\* the square root of the last two fixed points
Radicand(alpha, beta, gamma, delta, epsilon) ==
    - 4 * FxMul(FxMul(alpha, beta), epsilon)
    + 4 * FxMul(FxMul(FxMul(beta, beta), delta), epsilon)
    + FxMul(gamma, gamma)

\* whether every fixed point is a pair of finite real numbers at these
\* parameter values: no division by zero, no square root of a negative
Substitutable(alpha, beta, gamma, delta, epsilon) ==
    /\ beta # 0
    /\ epsilon # 0
    /\ FxDiv(delta, epsilon) >= 0
    /\ Radicand(alpha, beta, gamma, delta, epsilon) >= 0
    /\ LET root == FxSqrt(Radicand(alpha, beta, gamma, delta, epsilon))
       IN  gamma # root /\ gamma # -root

\* the list fixed_points that solve() returns, with the parameter values
\* substituted for the symbols: six points (x, y)
fixed_points_val(alpha, beta, gamma, delta, epsilon) ==
    LET root == FxSqrt(Radicand(alpha, beta, gamma, delta, epsilon))
        abe  == FxMul(FxMul(alpha, beta), epsilon)
        bbe  == FxMul(FxMul(beta, beta), epsilon)
        gg   == FxMul(gamma, gamma)
        even == 3 * FxMul(abe, gamma) - 2 * FxMul(FxMul(bbe, delta), gamma)
                    - FxMul(gg, gamma)
        odd  == FxMul(gg, root) - FxMul(abe, root)
    IN  << <<0, 0>>,
           <<0, -FxSqrt(FxDiv(delta, epsilon))>>,
           <<0, FxSqrt(FxDiv(delta, epsilon))>>,
           <<FxDiv(alpha, beta), 0>>,
           <<FxDiv(even + odd, FxMul(bbe, gamma - root)),
             FxDiv(gamma - root, 2 * FxMul(beta, epsilon))>>,
           <<FxDiv(even - odd, FxMul(bbe, gamma + root)),
             FxDiv(gamma + root, 2 * FxMul(beta, epsilon))>> >>

\* the condition under which plot_phase_portrait keeps a fixed point
Kept(point) == Abs(point[1]) < 4000 /\ point[2] >= 0

\* x_vals and y_vals of plot_phase_portrait(a, b, g, d, e), the points
\* plt.plot(x_vals, y_vals, 'ro') draws
plot_phase_portrait(a, b, g, d, e) ==
    LET kept == SelectSeq(fixed_points_val(a, b, g, d, e), Kept)
    IN  [x_vals |-> [i \in 1..Len(kept) |-> kept[i][1]],
         y_vals |-> [i \in 1..Len(kept) |-> kept[i][2]]]

\* alpha_val, beta_val, gamma_val, delta_val, epsilon_val
lv_values == [a |-> 3000, b |-> 1000, g |-> 3000, d |-> 5000, e |-> 500]

NoOverlay == [drawn |-> FALSE, args |-> lv_values, x_vals |-> <<>>,
              y_vals |-> <<>>]

\* positions of the sliders a, b, g and e (0 to 5) and d (0 to 10)
PhasePositions ==
    [a : {1000, 3000}, b : {0, 1000}, g : {3000}, d : {2000, 5000},
     e : {500, 2000}]

\* plot_phase_portrait runs with the sliders at p: when interact() shows
\* the widget and at every slider event
PlotPhasePortrait(p) ==
    /\ Substitutable(p.a, p.b, p.g, p.d, p.e)
    /\ overlay' = [drawn  |-> TRUE, args |-> p,
                   x_vals |-> plot_phase_portrait(p.a, p.b, p.g, p.d,
                                                  p.e).x_vals,
                   y_vals |-> plot_phase_portrait(p.a, p.b, p.g, p.d,
                                                  p.e).y_vals]
    /\ UNCHANGED <<call, ret, evals, conv, deriv, stability>>
    /\ UNCHANGED harnessVars
    /\ UNCHANGED kernelVars

\* the Jacobian J of (dx_dt, dy_dt) at the point (x, y)
J(x, y, alpha, beta, gamma, delta, epsilon) ==
    << <<alpha - 2 * FxMul(beta, x) - FxMul(gamma, y), -FxMul(gamma, x)>>,
       <<-y, delta - 3 * FxMul(epsilon, FxMul(y, y)) - x>> >>

\* (m11 - m22)**2 + 4*m12*m21, the term under the eigenvalues' square root
EigenRadicand(m) ==
    FxMul(m[1][1] - m[2][2], m[1][1] - m[2][2]) + 4 * FxMul(m[1][2], m[2][1])

\* the eigenvalues of the 2 x 2 matrix m in the order of
\* list(J.eigenvals().keys()): the root taken negative, then positive
eigenvalues(m) ==
    LET tr   == m[1][1] + m[2][2]
        root == FxSqrt(EigenRadicand(m))
    IN  <<Round(tr - root, 2), Round(tr + root, 2)>>

Positive(point) == point[1] >= 0 /\ point[2] >= 0

positive_fixed_points(v) ==
    SelectSeq(fixed_points_val(v.a, v.b, v.g, v.d, v.e), Positive)

\* the eigenvalues at a fixed point under the parameter values v
EigenvaluesAt(point, v) ==
    eigenvalues(J(point[1], point[2], v.a, v.b, v.g, v.d, v.e))

NotRun ==
    [pc |-> "not run", values |-> lv_values, point |-> 1, eigenvalue |-> 1,
     eigenvalues_fixed_points |-> {}]

\* values the parameter cell is given: those of the notebook, and
\* delta = 2 with epsilon = 2 or 1/2
StabilityValues ==
    {lv_values, [lv_values EXCEPT !.d = 2000, !.e = 2000],
     [lv_values EXCEPT !.d = 2000]}

\* the stability cell up to its loop: the fixed points are evaluated, the
\* positive ones selected and eigenvalues_fixed_points is emptied
EnterStabilityLoop(v) ==
    /\ Substitutable(v.a, v.b, v.g, v.d, v.e)
    /\ \A i \in 1..Len(positive_fixed_points(v)) :
          EigenRadicand(J(positive_fixed_points(v)[i][1],
                          positive_fixed_points(v)[i][2],
                          v.a, v.b, v.g, v.d, v.e)) >= 0
    /\ stability' = [pc |-> "loop", values |-> v, point |-> 1,
                     eigenvalue |-> 1, eigenvalues_fixed_points |-> {}]
    /\ UNCHANGED <<call, ret, evals, conv, deriv, overlay>>
    /\ UNCHANGED harnessVars
    /\ UNCHANGED kernelVars

\* the list the inner loop body builds for one eigenvalue: its value at the
\* point, once for each i in range(len(evaluated_eigenvalues))
Entry(point, eigenvalue, v) ==
    [point  |-> point,
     values |-> [i \in 1..Len(EigenvaluesAt(point, v)) |->
                    EigenvaluesAt(point, v)[eigenvalue]]]

\* one pass of the inner loop: eigenvalues_fixed_points[str(point)] is
\* assigned, then the loops advance
StabilityIteration ==
    /\ stability.pc = "loop"
    /\ LET v      == stability.values
           points == positive_fixed_points(v)
           point  == points[stability.point]
           last   == stability.eigenvalue = Len(EigenvaluesAt(point, v))
       IN  stability' =
               [stability EXCEPT
                   !.eigenvalues_fixed_points =
                       {e \in @ : e.point # point}
                           \cup {Entry(point, stability.eigenvalue, v)},
                   !.eigenvalue = IF last THEN 1 ELSE @ + 1,
                   !.point = IF last /\ @ < Len(points) THEN @ + 1 ELSE @,
                   !.pc = IF last /\ stability.point = Len(points)
                          THEN "done" ELSE @]
    /\ UNCHANGED <<call, ret, evals, conv, deriv, overlay>>
    /\ UNCHANGED harnessVars
    /\ UNCHANGED kernelVars

---------------------------------------------------------------------------
(* Specifications                                                          *)

\* the kernel of 2_odes.ipynb after its definitions, before any call
Init ==
    /\ call = NoCall
    /\ ret = NoResult
    /\ nb = "euler"
    /\ libs = TRUE
    /\ shown = FALSE
    /\ widget = Defaults("euler")
    /\ lastArgs = Kwargs("euler", Defaults("euler"))
    /\ plot = NoResult
    /\ runs = 0
    /\ renders = 0
    /\ events = 0
    /\ invokes = 0
    /\ queue = <<>>
    /\ inflight = {}
    /\ done = <<>>
    /\ arrived = 0
    /\ evals = <<>>
    /\ globals = ModuleData("euler")
    /\ earlier = NoResult
    /\ conv = ConvergenceStart
    /\ deriv = NoDerivative
    /\ overlay = NoOverlay
    /\ stability = NotRun

Next ==
    \E dydt \in Derivatives, y0 \in Y0Inputs, Dt \in DtInputs,
       t_end \in TEndInputs :
        CallSolveOdeEuler(dydt, y0, Dt, t_end)

Spec == Init /\ [][Next]_vars

\* the same kernel, solve_ode_euler being called with lists as y0
VectorNext ==
    \E dydt \in Derivatives, y0 \in ListY0Inputs, Dt \in DtInputs,
       t_end \in TEndInputs :
        CallSolveOdeEulerList(dydt, y0, Dt, t_end)

VectorSpec == Init /\ [][VectorNext]_vars

\* the same kernel executing solve_ode_euler(exp_decay_dt, 10, 0.001, 1)
ConvergenceNext == EulerIteration

ConvergenceSpec == Init /\ [][ConvergenceNext]_vars

\* a kernel in which the derivative functions are called directly
DerivativeNext ==
    \/ \E y \in IntensiveStates, t \in TimeInputs, p \in SolowParameters :
          CallIntensiveDynamics(y, t, p)
    \/ \E t \in TimeInputs, p \in SolowParameters : CallAtSteadyState(t, p)
    \/ \E y \in ExtensiveStates, t \in TimeInputs, p \in SolowParameters :
          CallExtensiveDynamics(y, t, p)
    \/ \E YK \in KaldorStates, t \in TimeInputs, p \in KaldorParameters :
          CallKaldorSystem(YK, t, p)
    \/ \E x \in LvStates, t \in TimeInputs, p \in LvParameters :
          CallLvSystem(x, t, p)

DerivativeSpec == Init /\ [][DerivativeNext]_vars

\* the kernel of the coupled-system section after solve() has returned
\* fixed_points and J is defined
PhaseNext ==
    \/ \E p \in PhasePositions : PlotPhasePortrait(p)
    \/ \E v \in StabilityValues : EnterStabilityLoop(v)
    \/ StabilityIteration

PhaseSpec == Init /\ [][PhaseNext]_vars

\* a notebook kernel after its definitions, before the interact() cell
HarnessInit ==
    /\ nb \in Harnesses
    /\ libs \in (IF nb = "logistic" THEN BOOLEAN ELSE {TRUE})
    /\ call = NoCall
    /\ ret = NoResult
    /\ shown = FALSE
    /\ widget = Defaults(nb)
    /\ lastArgs = Kwargs(nb, Defaults(nb))
    /\ plot = NoResult
    /\ runs = 0
    /\ renders = 0
    /\ events = 0
    /\ invokes = 0
    /\ queue = <<>>
    /\ inflight = {}
    /\ done = <<>>
    /\ arrived = 0
    /\ evals = <<>>
    /\ globals = ModuleData(nb)
    /\ earlier = NoResult
    /\ conv = ConvergenceStart
    /\ deriv = NoDerivative
    /\ overlay = NoOverlay
    /\ stability = NotRun

HarnessNext ==
    \/ Interact
    \/ \E k \in DOMAIN Positions(nb) :
          \E v \in Positions(nb)[k] : SliderEvent(k, v)
    \/ \E k \in DOMAIN Probes(nb) :
          \E v \in Probes(nb)[k] : Invoke(k, v)

HarnessSpec == HarnessInit /\ [][HarnessNext]_vars

\* the same kernels, with the slider messages queued while a run is going on
KernelNext ==
    \/ Interact
    \/ \E k \in DOMAIN Positions(nb) :
          \E v \in Positions(nb)[k] : Arrive(k, v)
    \/ BeginRun
    \/ \E e \in inflight : EndRun(e)

KernelSpec == HarnessInit /\ [][KernelNext]_vars

---------------------------------------------------------------------------
(* Properties of solve_ode_euler, checked under Spec                       *)

\* the latest call was solve_ode_euler with Dt > 0 and t_end >= 0, and none
\* of its dydt calls raised
ValidEulerCall ==
    /\ call.integrator = "solve_ode_euler"
    /\ call.Dt[1] > 0
    /\ call.t_end[1] >= 0
    /\ \A k \in 1..Len(evals) : evals[k] = "ok"

\* C1: for every valid call the returned times are t_values[i] = i * Dt,
\* also when Dt does not divide t_end.
C1_TimesAreMultiplesOfDt ==
    ValidEulerCall =>
        /\ ret.status = "ok"
        /\ \A k \in 1..Len(ret.t_values) :
              ret.t_values[k] = RMul(FromInt(k - 1), call.Dt)

\* C2: for every valid call both returned sequences have exactly
\* floor(t_end / Dt) + 1 entries.
C2_TrajectoryLength ==
    ValidEulerCall =>
        /\ ret.status = "ok"
        /\ Len(ret.t_values) = RFloor(RDiv(call.t_end, call.Dt)) + 1
        /\ Len(ret.y_values) = Len(ret.t_values)

\* a valid call returned whose Dt does not divide t_end, with several samples
C2_Witness ==
    /\ ValidEulerCall
    /\ ret.status = "ok"
    /\ RDiv(call.t_end, call.Dt)[2] # 1
    /\ Len(ret.y_values) >= 3

\* C3: a call with Dt <= 0 ends in an error and returns no trajectory.
C3_NonPositiveStepRaises ==
    (call.integrator = "solve_ode_euler" /\ call.Dt[1] <= 0) =>
        ret.status \notin {"ok", "none"}

\* C4: a call with t_end < 0 and Dt > 0 ends in an error and returns no
\* trajectory.
C4_NegativeHorizonRaises ==
    (call.integrator = "solve_ode_euler" /\ call.Dt[1] > 0
        /\ call.t_end[1] < 0) =>
        ret.status \notin {"ok", "none"}

\* C5: in every trajectory a valid call returns, consecutive samples satisfy
\* state[i+1] = state[i] + Dt * f(state[i], time[i]) and
\* time[i+1] = time[i] + Dt.
C5_EulerRecurrence ==
    (ValidEulerCall /\ ret.status = "ok") =>
        \A k \in 1..(Len(ret.y_values) - 1) :
            /\ ret.y_values[k + 1] =
                  RAdd(ret.y_values[k],
                       RMul(call.Dt,
                            Apply(call.dydt, ret.y_values[k], ret.t_values[k])))
            /\ ret.t_values[k + 1] = RAdd(ret.t_values[k], call.Dt)

\* C6: for every valid call the first sample has time 0 and state y0.
C6_FirstSample ==
    ValidEulerCall =>
        /\ ret.status = "ok"
        /\ ret.t_values[1] = FromInt(0)
        /\ ret.y_values[1] = call.y0

\* a valid call with floor(t_end / Dt) = 0 returned its single sample
C6_Witness ==
    /\ ValidEulerCall
    /\ ret.status = "ok"
    /\ RLess(call.t_end, call.Dt)
    /\ Len(ret.y_values) = 1
    /\ call.dydt # "zero"

\* C7: with a derivative that is zero everywhere, every sample of a valid
\* call's trajectory equals the initial state.
C7_ZeroDerivativeConstant ==
    (ValidEulerCall /\ call.dydt = "zero") =>
        /\ ret.status = "ok"
        /\ \A k \in 1..Len(ret.y_values) : ret.y_values[k] = call.y0

\* a valid call with the zero derivative returned after several steps
C7_Witness ==
    /\ ValidEulerCall
    /\ call.dydt = "zero"
    /\ ret.status = "ok"
    /\ Len(ret.y_values) >= 4
    /\ call.y0 # FromInt(0)

\* C12: when a dydt call of a run raises, it is the last dydt call of the
\* run, no trajectory (not even a partial one) is returned, and the caller
\* observes that very exception.
C12_DerivativeErrorPropagates ==
    call.integrator = "solve_ode_euler" =>
        \A k \in 1..Len(evals) :
            evals[k] # "ok" =>
                /\ k = Len(evals)
                /\ ret.status = evals[k]
                /\ ret.t_values = <<>>
                /\ ret.y_values = <<>>

\* a derivative raised after several steps had been taken
C12_Witness ==
    /\ call.integrator = "solve_ode_euler"
    /\ call.Dt[1] > 0
    /\ Len(evals) >= 3
    /\ evals[Len(evals)] # "ok"
    /\ ret.status = "RuntimeError"

\* C16: called with an initial state of n >= 1 components, a positive step
\* and a horizon >= 0, solve_ode_euler returns a trajectory whose state
\* samples all have n components.  (Checked under VectorSpec.)
C16_VectorStates ==
    (call.integrator = "solve_ode_euler" /\ call.Dt[1] > 0
        /\ call.t_end[1] >= 0) =>
        /\ ret.status = "ok"
        /\ Len(ret.y_values) >= 1
        /\ \A k \in 1..Len(ret.y_values) :
              Len(ret.y_values[k]) = Len(call.y0)

\* C17: for dy/dt = -y, y0 = 10, Dt = 0.001 and t_end = 1 the last state of
\* the trajectory is within 1% of 10/e = 3.678794...: it lies between
\* 0.99 * 10/e > 3.642006 and 1.01 * 10/e < 3.715583.  (Checked under
\* ConvergenceSpec, the bounds being in millionths.)
C17_WithinOnePercent ==
    conv.i = conv.n_steps =>
        /\ conv.n_steps = 1000
        /\ conv.y.lo >= 3642007
        /\ conv.y.hi <= 3715582

\* the loop has made its last pass
C17_Witness ==
    /\ conv.i = 1000
    /\ conv.i = conv.n_steps
    /\ conv.y.lo <= conv.y.hi

---------------------------------------------------------------------------
(* Properties of the interactive functions, checked under HarnessSpec      *)

\* some slider keyword of kw lies outside the slider's [min, max]
OutOfRange(h, kw) ==
    \E k \in DOMAIN Sliders(h) :
        kw[k] < Sliders(h)[k].min \/ kw[k] > Sliders(h)[k].max

\* kw with every slider keyword moved to the nearest bound of its range
Clamped(h, kw) ==
    [k \in DOMAIN kw |->
        IF k \notin DOMAIN Sliders(h) THEN kw[k]
        ELSE IF kw[k] < Sliders(h)[k].min THEN Sliders(h)[k].min
        ELSE IF kw[k] > Sliders(h)[k].max THEN Sliders(h)[k].max
        ELSE kw[k]]

\* C8: invoked with a value outside the declared range, the function of
\* 2_odes.ipynb does not fail and produces the trajectory of the value
\* clamped to the nearest bound.
C8_OutOfRangeIsClamped ==
    (nb = "euler" /\ shown /\ OutOfRange(nb, lastArgs)) =>
        /\ ret.status = "ok"
        /\ ret = IntegratorResult(nb, IntegratorCall(nb, Clamped(nb, lastArgs)))

C9_FixedInitialState(h) ==
    CASE h = "euler"     -> <<10, 1>>
      [] h = "wage"      -> << <<100, 1>>, <<70, 1>> >>
      [] h = "extensive" -> << <<100, 1>>, <<70, 1>>, <<50, 1>> >>
      [] h = "kaldor"    -> << <<5, 1>>, <<22, 5>> >>

C13_FailedRunNotRendered ==
    [][runs' = runs + 1 =>
          IF ret'.status # "ok"
          THEN renders' = renders /\ plot' = plot
          ELSE ret.status \notin {"ok", "none"} =>
                  (renders' = renders + 1 /\ plot' = ret')]_vars

\* solve_and_plot of 2_odes.ipynb plotted, failed at the next event and
\* plotted again at the event after it
C13_Witness ==
    /\ nb = "euler"
    /\ events = 2
    /\ runs = 3
    /\ renders = 2
    /\ ret.status = "ok"
    /\ plot = ret

\* the first count terms of the geometric sequence first, first * ratio, ...
RECURSIVE C14_Geometric(_, _, _)
C14_Geometric(first, ratio, count) ==
    IF count = 0 THEN <<>>
    ELSE <<first>> \o C14_Geometric(RMul(first, ratio), ratio, count - 1)

\* the trajectory of exponential decay from 10 over [0, 10] with the step
\* Dt = step/100, in closed form: n = floor(10 / Dt) steps, t[j] = 10 j / n
\* and y[j] = 10 (1 - Dt)^j; no trajectory when the step is zero or negative
C14_Decay(step) ==
    IF step = 0 THEN Raised("ZeroDivisionError")
    ELSE IF step < 0 THEN Raised("ValueError")
    ELSE LET last == 1000 \div step IN
         Returned([j \in 1..(last + 1) |-> Rat(10 * (j - 1), last)],
                  C14_Geometric(FromInt(10), Rat(100 - step, 100), last + 1))

\* what a run with keyword arguments kw produces, as a function of kw alone
C14_Outcome(h, kw) ==
    CASE h = "euler"     -> C14_Decay(kw.Dt)
      [] h = "logistic"  -> Raised("odeint.error")
      [] h = "wage"      ->
            Returned([start |-> 0, stop |-> 5, num |-> 50],
                     [first |-> << <<100, 1>>, <<70, 1>> >>,
                      func |-> "intensive_dynamics",
                      args |-> <<kw.A, kw.alpha, kw.delta, kw.n, kw.s>>])
      [] h = "extensive" ->
            Returned([start |-> 0, stop |-> 5, num |-> 50],
                     [first |-> << <<100, 1>>, <<70, 1>>, <<50, 1>> >>,
                      func |-> "extensive_dynamics",
                      args |-> <<kw.A, kw.alpha, kw.delta, kw.n, kw.s>>])
      [] h = "kaldor"    ->
            Returned([start |-> 0, stop |-> 200, num |-> 400],
                     [first |-> << <<5, 1>>, <<22, 5>> >>,
                      func |-> "kaldor_system",
                      args |-> <<kw.s, kw.alpha, kw.delta>>])

RECURSIVE C18_Divided(_, _, _)
C18_Divided(c, x, count) ==
    IF count = 0 THEN c ELSE C18_Divided(RDiv(c, x), x, count - 1)

\* v = k ** (p/q) for a rational k > 0 and integers p >= 0, q >= 1: v is
\* positive and v^q = k^p, that is k^p divided q - 1 times by v is v
C18_IsPower(v, k, p, q) ==
    /\ v[1] > 0
    /\ C18_Divided(C18_Divided(FromInt(1), Rat(k[2], k[1]), p), v, q - 1) = v

\* y = A * k ** alpha, A and alpha >= 0 being given in hundredths
C18_IsOutputPerWorker(y, A, k, alpha) ==
    IF A = 0 THEN y = FromInt(0)
    ELSE C18_IsPower(RDiv(y, Rat(A, 100)), k,
                     alpha \div GCD(alpha, 100), 100 \div GCD(alpha, 100))

\* C18: in every trajectory plot_wage_dynamics computes, output per worker
\* (component 0) equals A * k^alpha of the capital per worker k (component 1)
\* of the same sample; stated of the first sample, the one sample odeint
\* does not compute.
C18_OutputPerWorker ==
    (nb = "wage" /\ ret.status = "ok") =>
        C18_IsOutputPerWorker(ret.y_values.first[1], lastArgs.A,
                              ret.y_values.first[2], lastArgs.alpha)

---------------------------------------------------------------------------
(* Properties of the derivative functions, checked under DerivativeSpec    *)

\* C19: the capital derivative extensive_dynamics returns is s * Y - delta * K
\* with Y = A * K^alpha * L^(1 - alpha) of the K and L of the state it is
\* given, and the labour derivative is n * L.
C19_ExtensiveDerivative ==
    deriv.func = "extensive_dynamics" =>
        LET K == deriv.y[2]
            L == deriv.y[3]
            A == deriv.args[1]
            alpha == deriv.args[2]
            delta == deriv.args[3]
            n == deriv.args[4]
            s == deriv.args[5]
            Y == RMul(A, RMul(Pow(K, alpha), Pow(L, RSub(FromInt(1), alpha))))
        IN  /\ deriv.value[2] = RSub(RMul(s, Y), RMul(delta, K))
            /\ deriv.value[3] = RMul(n, L)

\* C21: lv_system([x, y], t, a, b, g, d, e) is the documented system
\* dx/dt = alpha*x - beta*x^2 - gamma*x*y, dy/dt = delta*y - epsilon*y^3 - x*y
\* at (alpha, beta, gamma, delta, epsilon) = (a, b, g, d, e): it agrees with
\* the symbolic dx_dt and dy_dt, whatever t is.
C21_NumericAgreesWithSymbolic ==
    deriv.func = "lv_system" =>
        deriv.value =
            <<dx_dt(deriv.y[1], deriv.y[2], deriv.args[1], deriv.args[2],
                    deriv.args[3], deriv.args[4], deriv.args[5]),
              dy_dt(deriv.y[1], deriv.y[2], deriv.args[1], deriv.args[2],
                    deriv.args[3], deriv.args[4], deriv.args[5])>>

\* lv_system was called at t = 5 at a state where every term of both
\* equations is non-zero and y^3 differs from y^2
C21_Witness ==
    /\ deriv.func = "lv_system"
    /\ deriv.t = FromInt(5)
    /\ deriv.y = <<FromInt(-3), FromInt(2)>>
    /\ \A i \in 1..5 : deriv.args[i] # FromInt(0)
    /\ deriv.value[1] # FromInt(0)
    /\ deriv.value[2] # FromInt(0)

\* C23: at the steady state of the intensive Solow model, k = k_star and
\* y = A * k_star^alpha, both derivatives intensive_dynamics returns (the
\* change of output per worker and the change of capital per worker) are 0.
C23_SteadyStateIsAtRest ==
    (/\ deriv.func = "intensive_dynamics"
     /\ SteadyStateDefined(deriv.args[1], deriv.args[2], deriv.args[3],
                           deriv.args[4], deriv.args[5])
     /\ deriv.y = SteadyState(deriv.args[1], deriv.args[2], deriv.args[3],
                              deriv.args[4], deriv.args[5]))
        => deriv.value = <<FromInt(0), FromInt(0)>>

\* C20: kaldor_system returns (alpha * (I - S), I - delta * K) with
\* I = investment(Y, K) and S = savings(Y, s) of the (Y, K) it is given, the
\* same I in both components.
C20_KaldorSystem ==
    deriv.func = "kaldor_system" =>
        LET Y == deriv.y[1]
            K == deriv.y[2]
            s == deriv.args[1]
            alpha == deriv.args[2]
            delta == deriv.args[3]
            I == investment(Y, K)
            S == savings(Y, s)
        IN  deriv.value = <<RMul(alpha, RSub(I, S)), RSub(I, RMul(delta, K))>>

\* kaldor_system was called at u0 = [5, 4.4], where investment and savings
\* differ and capital is not zero
C20_Witness ==
    /\ deriv.func = "kaldor_system"
    /\ deriv.y = << <<5, 1>>, <<22, 5>> >>
    /\ deriv.value[1] # FromInt(0)
    /\ investment(deriv.y[1], deriv.y[2]) # savings(deriv.y[1], deriv.args[1])

\* C24: the fixed points of kaldor_system do not depend on alpha: at every
\* (Y, K), s and delta, both derivative components are zero under one
\* position of the alpha slider exactly if they are under any other.
C24_FixedPointsIndependentOfAlpha ==
    deriv.func = "kaldor_system" =>
        \A alpha2 \in KaldorAlphas :
            (deriv.value = <<FromInt(0), FromInt(0)>>)
                <=> (kaldor_system(deriv.y, deriv.t, deriv.args[1], alpha2,
                                   deriv.args[3])
                        = <<FromInt(0), FromInt(0)>>)

\* kaldor_system was called at a fixed point, (4, 5) with delta = 0.2, under
\* an alpha other than the 2.2 of the phase diagram
C24_Witness ==
    /\ deriv.func = "kaldor_system"
    /\ deriv.value = <<FromInt(0), FromInt(0)>>
    /\ deriv.y = <<FromInt(4), FromInt(5)>>
    /\ deriv.args[2] = Rat(1, 100)

---------------------------------------------------------------------------
(* Properties of the phase portrait and the stability cell, checked under  *)
(* PhaseSpec                                                               *)

\* C22: at every parameter setting of the phase-portrait widget, every fixed
\* point overlaid on the stream plot has x >= 0 and y >= 0: no fixed point
\* with a negative x coordinate is drawn.
C22_OverlayIsPositive ==
    overlay.drawn =>
        \A i \in 1..Len(overlay.x_vals) :
            overlay.x_vals[i] >= 0 /\ overlay.y_vals[i] >= 0

\* C25: after the stability loop the entry of each positive fixed point
\* lists the value at that point of every eigenvalue of the Jacobian, in
\* eigenvalue order: each of them, not one of them repeated.
C25_EntryListsEveryEigenvalue ==
    stability.pc = "done" =>
        \A i \in 1..Len(positive_fixed_points(stability.values)) :
            LET point == positive_fixed_points(stability.values)[i]
            IN  \E e \in stability.eigenvalues_fixed_points :
                    /\ e.point = point
                    /\ e.values = EigenvaluesAt(point, stability.values)

---------------------------------------------------------------------------
(* The Dt slider of the Euler demonstration, checked under HarnessSpec     *)

\* C26: every slider event of the Euler demonstration makes solve_and_plot
\* complete an integration run and plot its trajectory: no position of the
\* Dt slider (0.0 to 2.0) drives solve_ode_euler into an error.
C26_EverySliderValueRuns ==
    [][(nb = "euler" /\ events' = events + 1) =>
          /\ ret'.status = "ok"
          /\ plot' = ret'
          /\ renders' = renders + 1]_vars

---------------------------------------------------------------------------
(* Properties of the event handling, checked under KernelSpec              *)

\* the ids of the messages of a sequence of messages
C11_Ids(q) == {q[i].id : i \in 1..Len(q)}

===========================================================================
